---------------------------- MODULE Spec2Model ----------------------------
(***************************************************************************)
(* Model of kids-draw-3d's backend: the mesh service (convert_to_stl,      *)
(* optimize_mesh, check_printability, scale_model), the storage janitor    *)
(* (cleanup_old_files) and the generate_3d request handler that runs them. *)
(*                                                                         *)
(* Numbers.  Coordinates are exact rationals: a mesh carries one           *)
(* denominator den and integer numerators, so the float arithmetic of the  *)
(* code (50.0 / max_dim, scale_percent / 100.0) is modelled without        *)
(* rounding and "within tolerance" reads as equality of rationals.         *)
(* Sizes of files are counted in MiB, modification times by a clock.       *)
(***************************************************************************)
EXTENDS Integers, Sequences, FiniteSets, TLC

VARIABLES
    fs,      \* the output directory: path -> file (content, mtime, size)
    clock,   \* the next modification time
    pc,      \* task -> where the task's handler / worker thread stands
    mesh,    \* task -> the object the worker holds (the local `mesh`)
    trace,   \* task -> the repair sub-steps attempted so far (history)
    flags,   \* task -> what the running operation has done (history)
    result,  \* task -> what the operation returned or raised
    jan      \* the locals of the running cleanup_old_files call

vars == <<fs, clock, pc, mesh, trace, flags, result, jan>>

---------------------------------------------------------------------------
(* Bounds of the model *)

NumTasks == 2
MaxSide == 2
MaxScales == 2
MaxFiles == 3

Tasks == 1..NumTasks

---------------------------------------------------------------------------
(* Arithmetic *)

Abs(x) == IF x < 0 THEN -x ELSE x

Max2(a, b) == IF a >= b THEN a ELSE b

Min2(a, b) == IF a <= b THEN a ELSE b

RECURSIVE GCD(_, _)
GCD(a, b) == IF b = 0 THEN Abs(a) ELSE GCD(b, a % b)

RECURSIVE SeqSum(_)
SeqSum(s) == IF s = <<>> THEN 0 ELSE Head(s) + SeqSum(Tail(s))

RECURSIVE SeqGCD(_)
SeqGCD(s) == IF s = <<>> THEN 0 ELSE GCD(Head(s), SeqGCD(Tail(s)))

RECURSIVE SeqMax(_)
SeqMax(s) == IF Len(s) = 1 THEN s[1] ELSE Max2(Head(s), SeqMax(Tail(s)))

RECURSIVE SeqMin(_)
SeqMin(s) == IF Len(s) = 1 THEN s[1] ELSE Min2(Head(s), SeqMin(Tail(s)))

Isqrt(n) == CHOOSE r \in 0..n : r * r <= n /\ (r + 1) * (r + 1) > n

Range(s) == {s[i] : i \in DOMAIN s}

RECURSIVE Flatten(_)
Flatten(ss) == IF ss = <<>> THEN <<>> ELSE Head(ss) \o Flatten(Tail(ss))

RECURSIVE SelectIdx(_, _, _)
SelectIdx(s, keep, i) ==
    IF i > Len(s) THEN <<>>
    ELSE (IF i \in keep THEN <<s[i]>> ELSE <<>>) \o SelectIdx(s, keep, i + 1)

\* The first index at which x stands in s.
IndexOf(s, x) == CHOOSE i \in DOMAIN s : s[i] = x /\ \A j \in 1..(i - 1) : s[j] # x

\* s without repetitions, in order of first occurrence.
RECURSIVE Unique(_)
Unique(s) ==
    IF s = <<>> THEN <<>>
    ELSE LET front == Unique(SubSeq(s, 1, Len(s) - 1))
             last  == s[Len(s)]
         IN IF last \in Range(front) THEN front ELSE Append(front, last)

---------------------------------------------------------------------------
(* Points and vectors (integer numerators) *)

PAdd(p, q) == <<p[1] + q[1], p[2] + q[2], p[3] + q[3]>>

PSub(p, q) == <<p[1] - q[1], p[2] - q[2], p[3] - q[3]>>

PMul(p, k) == <<p[1] * k, p[2] * k, p[3] * k>>

PDiv(p, k) == <<p[1] \div k, p[2] \div k, p[3] \div k>>

Cross(a, b) ==
    <<a[2] * b[3] - a[3] * b[2], a[3] * b[1] - a[1] * b[3], a[1] * b[2] - a[2] * b[1]>>

Dot(a, b) == a[1] * b[1] + a[2] * b[2] + a[3] * b[3]

RECURSIVE PSum(_)
PSum(ps) == IF ps = <<>> THEN <<0, 0, 0>> ELSE PAdd(Head(ps), PSum(Tail(ps)))

---------------------------------------------------------------------------
(* The in-memory mesh: trimesh.Trimesh as the code uses it.                *)
(* [den, verts, faces]: vertex i is verts[i] / den, a face is a triple of  *)
(* vertex indices.                                                         *)

Trimesh(den, verts, faces) == [den |-> den, verts |-> verts, faces |-> faces]

\* One rational in lowest terms for the whole mesh.
Normalize(m) ==
    LET g == GCD(m.den, SeqGCD(Flatten(m.verts)))
    IN Trimesh(m.den \div g, [i \in DOMAIN m.verts |-> PDiv(m.verts[i], g)], m.faces)

Axis(m, k) == [i \in DOMAIN m.verts |-> m.verts[i][k]]

\* mesh.bounds: the two corners of the axis-aligned bounding box (numerators).
Bounds(m) ==
    <<[k \in 1..3 |-> SeqMin(Axis(m, k))], [k \in 1..3 |-> SeqMax(Axis(m, k))]>>

\* bounds[1] - bounds[0] (numerators over m.den).
Extents(m) == PSub(Bounds(m)[2], Bounds(m)[1])

\* mesh.apply_scale(n / d): every vertex times the same factor.
ApplyScale(m, n, d) ==
    Normalize(Trimesh(m.den * d, [i \in DOMAIN m.verts |-> PMul(m.verts[i], n)], m.faces))

\* mesh.vertices -= t, t the rational point tnum / tden.
Translate(m, tnum, tden) ==
    Normalize(Trimesh(m.den * tden,
                      [i \in DOMAIN m.verts |-> PSub(PMul(m.verts[i], tden), PMul(tnum, m.den))],
                      m.faces))

Tri(m, f) == <<m.verts[f[1]], m.verts[f[2]], m.verts[f[3]]>>

Edge1(m, f) == PSub(m.verts[f[2]], m.verts[f[1]])

Edge2(m, f) == PSub(m.verts[f[3]], m.verts[f[1]])

\* The common factor of all edge vectors: areas are compared up to it.
EdgeUnit(m) ==
    LET g == SeqGCD(Flatten([i \in DOMAIN m.faces |->
                 Edge1(m, m.faces[i]) \o Edge2(m, m.faces[i])]))
    IN IF g = 0 THEN 1 ELSE g

\* area_faces up to a common factor: |e1 x e2| of the reduced edges.
AreaWeight(m, f) ==
    LET c == Cross(PDiv(Edge1(m, f), EdgeUnit(m)), PDiv(Edge2(m, f), EdgeUnit(m)))
    IN Isqrt(Dot(c, c))

\* mesh.centroid as <<numerator point, denominator>>: the mean of the
\* triangle centers weighted by triangle area, and the plain mean of the
\* triangle centers when every area is zero.
Centroid(m) ==
    LET w    == [i \in DOMAIN m.faces |-> AreaWeight(m, m.faces[i])]
        wsum == SeqSum(w)
        tsum(i) == PSum(Tri(m, m.faces[i]))
    IN IF wsum > 0
       THEN <<PSum([i \in DOMAIN m.faces |-> PMul(tsum(i), w[i])]), 3 * wsum * m.den>>
       ELSE <<PSum([i \in DOMAIN m.faces |-> tsum(i)]), 3 * Len(m.faces) * m.den>>

\* The directed edges of a face, and of the mesh (with repetitions).
FaceEdges(f) == <<<<f[1], f[2]>>, <<f[2], f[3]>>, <<f[3], f[1]>>>>

Edges(m) == Flatten([i \in DOMAIN m.faces |-> FaceEdges(m.faces[i])])

SameEdge(e, d) == e = d \/ e = <<d[2], d[1]>>

\* The positions in Edges(m) of the edges lying on the undirected edge e.
EdgeGroup(m, e) == {i \in DOMAIN Edges(m) : SameEdge(Edges(m)[i], e)}

\* mesh.is_watertight: every edge is shared by exactly two faces.
IsWatertight(m) ==
    /\ m.faces # <<>>
    /\ \A i \in DOMAIN Edges(m) : Cardinality(EdgeGroup(m, Edges(m)[i])) = 2

\* mesh.is_winding_consistent: the two faces on a shared edge traverse it
\* in opposite directions.
IsWindingConsistent(m) ==
    /\ m.faces # <<>>
    /\ \A i \in DOMAIN Edges(m) :
          LET grp == EdgeGroup(m, Edges(m)[i])
          IN Cardinality(grp) = 2 =>
                \A j \in grp \ {i} : Edges(m)[j] = <<Edges(m)[i][2], Edges(m)[i][1]>>

\* Six times the signed volume, in numerator units: sum of det(v0, v1, v2).
Volume6(m) ==
    SeqSum([i \in DOMAIN m.faces |->
        LET t == Tri(m, m.faces[i]) IN Dot(t[1], Cross(t[2], t[3]))])

\* mesh.volume as a rational <<num, den>> in lowest terms.
Volume(m) ==
    LET n == Volume6(m)
        d == 6 * m.den * m.den * m.den
        g == GCD(n, d)
    IN <<n \div g, d \div g>>

---------------------------------------------------------------------------
(* The trimesh operations the mesh service calls *)

FlipFace(f) == <<f[3], f[2], f[1]>>

FlipFaces(m, F) ==
    Trimesh(m.den, m.verts,
            [i \in DOMAIN m.faces |-> IF i \in F THEN FlipFace(m.faces[i]) ELSE m.faces[i]])

\* mesh.invert(): every face reversed.
Invert(m) == FlipFaces(m, DOMAIN m.faces)

\* trimesh.repair.fix_winding: flip faces until neighbours agree, keeping the
\* first face; a surface that cannot be oriented is left as it is.
FixWinding(m) ==
    IF m.faces = <<>> \/ IsWindingConsistent(m) THEN m
    ELSE LET cands == {F \in SUBSET (DOMAIN m.faces) :
                          1 \notin F /\ IsWindingConsistent(FlipFaces(m, F))}
         IN IF cands = {} THEN m
            ELSE FlipFaces(m, CHOOSE F \in cands :
                                 \A G \in cands : Cardinality(F) <= Cardinality(G))

\* trimesh.repair.fix_inversion: a mesh of negative volume is inverted.
FixInversion(m) == IF Volume6(m) < 0 THEN Invert(m) ELSE m

\* trimesh.repair.fix_normals: fix_winding, then fix_inversion.
FixNormals(m) == FixInversion(FixWinding(m))

\* The directed edges that border a hole: their edge has one face only.
BoundaryEdges(m) ==
    {Edges(m)[i] : i \in {j \in DOMAIN Edges(m) :
                             Cardinality(EdgeGroup(m, Edges(m)[j])) = 1}}

\* trimesh.repair.fill_holes: a hole bordered by three edges is closed by one
\* face that runs against them; any other boundary is left open.
FillHoles(m) ==
    LET B == BoundaryEdges(m)
    IN IF Len(m.faces) >= 3 /\ Cardinality(B) = 3
          /\ \A e \in B : \E d \in B : d[1] = e[2] /\ d[2] # e[1]
       THEN LET e == CHOOSE x \in B : TRUE
                d == CHOOSE x \in B : x[1] = e[2]
            IN Trimesh(m.den, m.verts, Append(m.faces, <<e[2], e[1], d[2]>>))
       ELSE m

\* mesh.merge_vertices(): referenced vertices at the same position become one.
MergeVertices(m) ==
    LET pts == Unique(Flatten([i \in DOMAIN m.faces |-> Tri(m, m.faces[i])]))
    IN Trimesh(m.den, pts,
               [i \in DOMAIN m.faces |->
                   [k \in 1..3 |-> IndexOf(pts, m.verts[m.faces[i][k]])]])

\* mesh.nondegenerate_faces(): the faces with three distinct corners that
\* span a non-zero area.
NondegenerateFaces(m) ==
    {i \in DOMAIN m.faces :
        /\ Cardinality(Range(m.faces[i])) = 3
        /\ Cross(Edge1(m, m.faces[i]), Edge2(m, m.faces[i])) # <<0, 0, 0>>}

\* mesh.unique_faces(): the first face on each set of three vertices.
UniqueFaces(m) ==
    {i \in DOMAIN m.faces :
        \A j \in 1..(i - 1) : Range(m.faces[j]) # Range(m.faces[i])}

\* mesh.update_faces(mask)
UpdateFaces(m, keep) == Trimesh(m.den, m.verts, SelectIdx(m.faces, keep, 1))

\* mesh.process(validate=True): merge vertices, drop duplicate and
\* degenerate faces, fix normals.
Process(m) ==
    IF m.faces = <<>> THEN m
    ELSE LET mm == MergeVertices(m)
         IN FixNormals(UpdateFaces(mm, UniqueFaces(mm) \cap NondegenerateFaces(mm)))

\* trimesh.util.concatenate: vertices stacked, face indices offset.
RECURSIVE Concatenate(_)
Concatenate(ms) ==
    IF Len(ms) = 1 THEN ms[1]
    ELSE LET a == ms[1]
             b == Concatenate(Tail(ms))
             off == Len(a.verts)
         IN Normalize(Trimesh(a.den * b.den,
               [i \in DOMAIN a.verts |-> PMul(a.verts[i], b.den)]
                  \o [i \in DOMAIN b.verts |-> PMul(b.verts[i], a.den)],
               a.faces \o [i \in DOMAIN b.faces |->
                              [k \in 1..3 |-> b.faces[i][k] + off]]))

---------------------------------------------------------------------------
(* Files and the objects trimesh.load makes of them *)

\* kind: "none" (no such file), "corrupt", "png", "stl" (data: triangles, each
\* three points), "mesh" (one indexed mesh: data = <<verts, faces>>) and
\* "scene" (data: the named geometries, each an object).
File(kind, den, data, mtime, size) ==
    [kind |-> kind, den |-> den, data |-> data, mtime |-> mtime, size |-> size]

NoFile == File("none", 1, <<>>, 0, 0)

Exists(f) == f.kind # "none"

SameContent(f, g) == f.kind = g.kind /\ f.den = g.den /\ f.data = g.data

\* What a worker holds: a Trimesh (m), a Scene (geoms) or nothing.
Obj(type, m, geoms) == [type |-> type, m |-> m, geoms |-> geoms]

NoMesh == Trimesh(1, <<>>, <<>>)

NoObj == Obj("None", NoMesh, <<>>)

TrimeshObj(m) == Obj("Trimesh", m, <<>>)

\* A geometry of a scene that is no Trimesh (a point cloud, a path).
OtherGeom == Obj("PointCloud", NoMesh, <<>>)

\* The triangles of an STL file as a mesh: no shared-vertex indexing.
Soup(den, tris) ==
    Trimesh(den, Flatten(tris), [i \in DOMAIN tris |-> <<3 * i - 2, 3 * i - 1, 3 * i>>])

Loadable(f) == f.kind \in {"stl", "mesh", "scene"}

\* trimesh.load(path), for a file it can read: an STL or single-mesh file
\* gives a Trimesh with its vertices merged, a scene file gives a Scene.
Load(f) ==
    CASE f.kind = "stl"   -> TrimeshObj(MergeVertices(Soup(f.den, f.data)))
      [] f.kind = "mesh"  -> TrimeshObj(MergeVertices(Trimesh(f.den, f.data[1], f.data[2])))
      [] f.kind = "scene" -> Obj("Scene", NoMesh, f.data)
      [] OTHER            -> NoObj

\* Sizes are counted in whole MiB.
BytesPerMiB == 1024 * 1024

\* A binary STL file: a header of 80 bytes, a count of 4 and 50 bytes for
\* each triangle.
StlSize(m) == (84 + 50 * Len(m.faces)) \div BytesPerMiB

\* mesh.export(path, file_type='stl'): one triangle of three points per face.
StlFile(m, mtime) ==
    File("stl", m.den, [i \in DOMAIN m.faces |-> Tri(m, m.faces[i])], mtime, StlSize(m))

---------------------------------------------------------------------------
(* The meshes and files the model draws its inputs from.  Every face of    *)
(* these shapes has a rational area.                                       *)

Sides == 1..MaxSide

Offsets == {<<0, 0, 0>>, <<1, -2, 0>>}

\* A closed tetrahedron with legs L, L, 2L at o, wound outwards.
Solid(L, o) ==
    Trimesh(1, <<o, PAdd(o, <<L, 0, 0>>), PAdd(o, <<0, L, 0>>), PAdd(o, <<0, 0, 2 * L>>)>>,
            <<<<1, 3, 2>>, <<1, 2, 4>>, <<1, 4, 3>>, <<2, 3, 4>>>>)

\* The same with its last face missing: an open surface.
Opened(L, o) == UpdateFaces(Solid(L, o), {1, 2, 3})

\* The same with one face wound the wrong way.
Flipped(L, o) == FlipFaces(Solid(L, o), {2})

\* The same turned inside out.
Inverted(L, o) == Invert(Solid(L, o))

\* A closed surface that encloses nothing: the two sides of a square.
Flat(L, o) ==
    Trimesh(1, <<o, PAdd(o, <<L, 0, 0>>), PAdd(o, <<L, L, 0>>), PAdd(o, <<0, L, 0>>)>>,
            <<<<1, 2, 3>>, <<1, 3, 4>>, <<1, 4, 2>>, <<2, 4, 3>>>>)

\* A closed tetrahedron with one more face that has two equal corners.
WithSliver(L, o) ==
    Trimesh(1, Solid(L, o).verts, Append(Solid(L, o).faces, <<1, 2, 2>>))

\* A mesh of zero extent: one triangle whose corners coincide.
Point(o) == Trimesh(1, <<o, o, o>>, <<<<1, 2, 3>>>>)

Shapes ==
    UNION {{Solid(L, o), Opened(L, o), Flipped(L, o), Inverted(L, o), Flat(L, o),
            WithSliver(L, o)} : <<L, o>> \in Sides \X Offsets}
    \cup {Point(o) : o \in Offsets}

MeshFile(m) == File("mesh", m.den, <<m.verts, m.faces>>, 0, 1)

SceneFile(geoms) == File("scene", 1, geoms, 0, 1)

CorruptFile == File("corrupt", 1, <<>>, 0, 1)

\* What the generator, or any caller, may hand to convert_to_stl.
Scenes ==
    {<<>>, <<OtherGeom>>, <<OtherGeom, OtherGeom>>, <<TrimeshObj(NoMesh)>>}
    \cup {<<TrimeshObj(m)>> : m \in Shapes}
    \cup {<<TrimeshObj(Solid(L, <<0, 0, 0>>)), OtherGeom, TrimeshObj(Opened(1, <<1, -2, 0>>))>> :
             L \in Sides}
    \cup {<<TrimeshObj(Point(<<0, 0, 0>>)), TrimeshObj(Point(<<1, -2, 0>>))>>}

InputFiles ==
    {NoFile, CorruptFile} \cup {MeshFile(m) : m \in Shapes} \cup {SceneFile(g) : g \in Scenes}

\* What may lie at an STL path.
StlFiles == {StlFile(m, 0) : m \in Shapes}

---------------------------------------------------------------------------
(* Paths of the output directory: <task_id>_input.png, <task_id>_model.glb *)
(* and <task_id>_model.stl; owner 0 stands for requests served earlier.    *)

Suffixes == <<"png", "glb", "stl">>

Owners == 0..NumTasks

Paths == Owners \X Range(Suffixes)

ImagePath(t) == <<t, "png">>

ModelPath(t) == <<t, "glb">>

StlPath(t) == <<t, "stl">>

\* The sizes, in MiB, a generated model may have.
FileSizes == {1024, 6 * 1024}

---------------------------------------------------------------------------
(* Per-task state *)

NoReport ==
    [is_watertight |-> FALSE, is_winding_consistent |-> FALSE,
     volume_mm3 |-> [defined |-> FALSE, num |-> 0, den |-> 1],
     dimensions_mm |-> <<0, 0, 0>>, dimensions_den |-> 1,
     face_count |-> 0, vertex_count |-> 0, printable |-> FALSE]

\* status: "none", "returned", "raised"; error names what was raised, or the
\* "error" entry of a returned dict.
Result(status, error, report) == [status |-> status, error |-> error, report |-> report]

NoResult == Result("none", "", NoReport)

Returned == Result("returned", "", NoReport)

Raised(e) == Result("raised", e, NoReport)

\* History of the running operation: op names it, before is the file at its
\* output path when it began.
NoFlags ==
    [op |-> "none", scaled |-> FALSE, centered |-> FALSE, exported |-> FALSE,
     before |-> NoFile, orig |-> NoFile, watertight_at_fill |-> FALSE, failed |-> {},
     pcts |-> <<>>]

\* The locals of cleanup_old_files (max_size, files, current_size,
\* deleted_count), the task whose handler called it, and history: the
\* directory listing, the list as sorted, the entries popped so far and
\* those among them whose unlink raised.
NoJan ==
    [pc |-> "idle", caller |-> 0, max_size |-> 0, files |-> <<>>, current_size |-> 0,
     deleted_count |-> 0, listed |-> <<>>, sorted |-> <<>>, attempted |-> <<>>,
     failed |-> {}]

\* An operation of the mesh service ends: inside generate_3d a raise is the
\* handler's except branch, and a return resumes the handler at `next`.
Finish(t, res, next) ==
    /\ result' = [result EXCEPT ![t] = res]
    /\ pc' = [pc EXCEPT ![t] =
                IF flags[t].op = "generate"
                THEN (IF res.status = "raised" THEN "failed" ELSE next)
                ELSE "done"]

---------------------------------------------------------------------------
(* _convert_to_stl_sync(input_path = ModelPath(t), output_path = StlPath(t)) *)

\* A loop that forgets the isinstance test.
ValidGeometries_Mut(o) == o.geoms

\* The Trimesh members of a Scene (the isinstance filter of the loop).
ValidGeometries(o) == SelectSeq(o.geoms, LAMBDA g : g.type = "Trimesh")

\* The loader fails: the file cannot be read, or it is a Scene without a
\* single Trimesh in it.  "" when it does not fail.
LoaderError(f) ==
    IF ~Exists(f) THEN "FileNotFoundError"
    ELSE IF ~Loadable(f) THEN "LoadError"
    ELSE IF Load(f).type = "Scene" /\ ValidGeometries(Load(f)) = <<>> THEN "ValueError"
    ELSE ""

\* The one mesh the loader hands on: a Scene's Trimesh members concatenated.
Flattened(f) ==
    IF Load(f).type = "Scene"
    THEN LET geometries == ValidGeometries(Load(f))
         IN Concatenate([i \in DOMAIN geometries |-> geometries[i].m])
    ELSE Load(f).m

\* mesh = trimesh.load(...) and the flattening of a Scene.
ConvertLoad(t) ==
    /\ pc[t] = "cv_load"
    /\ LET f == fs[ModelPath(t)]
       IN IF LoaderError(f) # ""
          THEN /\ Finish(t, Raised(LoaderError(f)), "failed")
               /\ UNCHANGED mesh
          ELSE /\ mesh' = [mesh EXCEPT ![t] = TrimeshObj(Flattened(f))]
               /\ pc' = [pc EXCEPT ![t] = "cv_scale"]
               /\ UNCHANGED result
    /\ UNCHANGED <<fs, clock, trace, flags, jan>>

\* max_dim = np.max(bounds[1] - bounds[0]) (numerator over m.den).
MaxDim(m) == SeqMax(Extents(m))
\* A scale factor that forgets the target of 50.
ScaleToPrintSize_Mut(m) == ApplyScale(m, m.den, MaxDim(m))

\* scale_factor = 50.0 / max_dim; mesh.apply_scale(scale_factor)
ScaleToPrintSize(m) == ApplyScale(m, 50 * m.den, MaxDim(m))

\* mesh.vertices -= mesh.centroid
Center(m) == Translate(m, Centroid(m)[1], Centroid(m)[2])
\* A test against 1 in place of 0.
ShouldScale_Mut(m) == MaxDim(m) > m.den

\* if max_dim > 0
ShouldScale(m) == MaxDim(m) > 0

\* bounds = mesh.bounds (None for a mesh without vertices, and bounds[1]
\* then raises TypeError), and the scaling under `if max_dim > 0`.
ConvertScale(t) ==
    /\ pc[t] = "cv_scale"
    /\ LET m == mesh[t].m
       IN IF m.verts = <<>>
          THEN /\ Finish(t, Raised("TypeError"), "failed")
               /\ UNCHANGED <<mesh, flags>>
          ELSE /\ mesh' = [mesh EXCEPT ![t] =
                             IF ShouldScale(m) THEN TrimeshObj(ScaleToPrintSize(m)) ELSE @]
               /\ flags' = [flags EXCEPT ![t].scaled = ShouldScale(m)]
               /\ pc' = [pc EXCEPT ![t] = "cv_center"]
               /\ UNCHANGED result
    /\ UNCHANGED <<fs, clock, trace, jan>>

\* The centering.
ConvertCenter(t) ==
    /\ pc[t] = "cv_center"
    /\ mesh' = [mesh EXCEPT ![t] = TrimeshObj(Center(mesh[t].m))]
    /\ flags' = [flags EXCEPT ![t].centered = TRUE]
    /\ pc' = [pc EXCEPT ![t] = "cv_export"]
    /\ UNCHANGED <<fs, clock, trace, result, jan>>

\* mesh.export(str(output_path), file_type='stl'), and the return.
ConvertExport(t) ==
    /\ pc[t] = "cv_export"
    /\ fs' = [fs EXCEPT ![StlPath(t)] = StlFile(mesh[t].m, clock)]
    /\ clock' = clock + 1
    /\ flags' = [flags EXCEPT ![t].exported = TRUE]
    /\ Finish(t, Returned, "opt_load")
    /\ UNCHANGED <<mesh, trace, jan>>

\* The export fails to write (an OSError): it propagates.
ConvertExportFails(t) ==
    /\ pc[t] = "cv_export"
    /\ Finish(t, Raised("OSError"), "failed")
    /\ UNCHANGED <<fs, clock, mesh, trace, flags, jan>>

Convert(t) ==
    \/ ConvertLoad(t)
    \/ ConvertScale(t)
    \/ ConvertCenter(t)
    \/ ConvertExport(t)

\* convert_to_stl called on its own, for any input file and any earlier
\* file at the output path.
InitConvert ==
    /\ \E in \in InputFiles, old \in {NoFile} \cup {StlFile(Solid(1, <<0, 0, 0>>), 0)} :
          /\ fs = [p \in Paths |-> IF p = ModelPath(1) THEN in
                                   ELSE IF p = StlPath(1) THEN old ELSE NoFile]
          /\ flags = [t \in Tasks |-> IF t = 1 THEN [NoFlags EXCEPT !.op = "convert", !.before = old]
                                      ELSE NoFlags]
    /\ clock = 1
    /\ pc = [t \in Tasks |-> IF t = 1 THEN "cv_load" ELSE "idle"]
    /\ mesh = [t \in Tasks |-> NoObj]
    /\ trace = [t \in Tasks |-> <<>>]
    /\ result = [t \in Tasks |-> NoResult]
    /\ jan = NoJan

NextConvert == Convert(1) \/ ConvertExportFails(1)

SpecConvert == InitConvert /\ [][NextConvert]_vars

---------------------------------------------------------------------------
(* _optimize_mesh_sync(stl_path = StlPath(t)) *)

\* mesh = trimesh.load(str(stl_path)); a load error is not caught, and an
\* object that is no Trimesh makes the function return at once.
OptLoad(t) ==
    /\ pc[t] = "opt_load"
    /\ LET f == fs[StlPath(t)]
       IN IF ~Loadable(f)
          THEN /\ Finish(t, Raised(IF Exists(f) THEN "LoadError" ELSE "FileNotFoundError"),
                         "failed")
               /\ UNCHANGED mesh
          ELSE IF Load(f).type # "Trimesh"
          THEN /\ Finish(t, Returned, "respond")
               /\ UNCHANGED mesh
          ELSE /\ mesh' = [mesh EXCEPT ![t] = Load(f)]
               /\ pc' = [pc EXCEPT ![t] = "opt_normals"]
               /\ UNCHANGED result
    /\ UNCHANGED <<fs, clock, trace, flags, jan>>
\* The fallback of the cleanup without its own try block.
Handler_Mut(at) ==
    CASE at \in {"opt_normals", "opt_inversion", "opt_winding"} -> "opt_fill"
      [] at = "opt_fill"    -> "opt_process"
      [] at = "opt_process" -> "opt_merge"
      [] at \in {"opt_merge", "opt_update"} -> "raise"

\* Where control resumes when the call made at `at` raises: the except
\* clause of the try block the call stands in.  The three corrections share
\* one try block, so a failure of one skips those after it.
Handler(at) ==
    CASE at \in {"opt_normals", "opt_inversion", "opt_winding"} -> "opt_fill"
      [] at = "opt_fill"    -> "opt_process"
      [] at = "opt_process" -> "opt_merge"
      [] at \in {"opt_merge", "opt_update"} -> "opt_export"

\* A call of the repair sequence: it is attempted, and either leaves the mesh
\* `repaired` or raises before it changed the mesh.
RepairCall(t, at, name, repaired, ok, next) ==
    /\ pc[t] = at
    /\ trace' = [trace EXCEPT ![t] = Append(@, name)]
    /\ IF ok
       THEN /\ mesh' = [mesh EXCEPT ![t] = TrimeshObj(repaired)]
            /\ pc' = [pc EXCEPT ![t] = next]
            /\ UNCHANGED <<flags, result>>
       ELSE /\ flags' = [flags EXCEPT ![t].failed = @ \cup {name}]
            /\ UNCHANGED mesh
            /\ IF Handler(at) = "raise"
               THEN Finish(t, Raised("RepairStepFailure"), "failed")
               ELSE pc' = [pc EXCEPT ![t] = Handler(at)] /\ UNCHANGED result
    /\ UNCHANGED <<fs, clock, jan>>

\* trimesh.repair.fix_normals(mesh)
OptNormals(t, oks) ==
    \E ok \in oks["fix_normals"] :
        RepairCall(t, "opt_normals", "fix_normals", FixNormals(mesh[t].m), ok, "opt_inversion")

\* trimesh.repair.fix_inversion(mesh)
OptInversion(t, oks) ==
    \E ok \in oks["fix_inversion"] :
        RepairCall(t, "opt_inversion", "fix_inversion", FixInversion(mesh[t].m), ok, "opt_winding")

\* trimesh.repair.fix_winding(mesh)
OptWinding(t, oks) ==
    \E ok \in oks["fix_winding"] :
        RepairCall(t, "opt_winding", "fix_winding", FixWinding(mesh[t].m), ok, "opt_fill")

\* fill_holes called whatever the mesh.
NeedsFill_Mut(m) == TRUE

\* if not mesh.is_watertight
NeedsFill(m) == ~IsWatertight(m)

\* The watertight test, and trimesh.repair.fill_holes(mesh) under it.
OptFill(t, oks) ==
    /\ pc[t] = "opt_fill"
    /\ IF NeedsFill(mesh[t].m)
       THEN \E ok \in oks["fill_holes"] :
               /\ trace' = [trace EXCEPT ![t] = Append(@, "fill_holes")]
               /\ mesh' = [mesh EXCEPT ![t] = IF ok THEN TrimeshObj(FillHoles(@.m)) ELSE @]
               /\ flags' = [flags EXCEPT ![t].watertight_at_fill = IsWatertight(mesh[t].m),
                                         ![t].failed = IF ok THEN @ ELSE @ \cup {"fill_holes"}]
               /\ pc' = [pc EXCEPT ![t] = IF ok THEN "opt_process" ELSE Handler("opt_fill")]
       ELSE /\ flags' = [flags EXCEPT ![t].watertight_at_fill = IsWatertight(mesh[t].m)]
            /\ pc' = [pc EXCEPT ![t] = "opt_process"]
            /\ UNCHANGED <<trace, mesh>>
    /\ UNCHANGED <<fs, clock, result, jan>>

\* mesh.process(validate=True)
OptProcess(t, oks) ==
    \E ok \in oks["process"] :
        RepairCall(t, "opt_process", "process", Process(mesh[t].m), ok, "opt_export")

\* The fallback of the cleanup: mesh.merge_vertices()
OptMerge(t, oks) ==
    \E ok \in oks["merge_vertices"] :
        RepairCall(t, "opt_merge", "merge_vertices", MergeVertices(mesh[t].m), ok, "opt_update")

DropDegenerate(m) == UpdateFaces(m, NondegenerateFaces(m))

\* The fallback of the cleanup: mesh.update_faces(mesh.nondegenerate_faces())
OptUpdate(t, oks) ==
    \E ok \in oks["update_faces"] :
        RepairCall(t, "opt_update", "update_faces", DropDegenerate(mesh[t].m), ok, "opt_export")

\* mesh.export(str(stl_path), file_type='stl'), and the return.
OptExport(t) ==
    /\ pc[t] = "opt_export"
    /\ fs' = [fs EXCEPT ![StlPath(t)] = StlFile(mesh[t].m, clock)]
    /\ clock' = clock + 1
    /\ flags' = [flags EXCEPT ![t].exported = TRUE]
    /\ Finish(t, Returned, "respond")
    /\ UNCHANGED <<mesh, trace, jan>>

\* The export fails to write (an OSError): it propagates.
OptExportFails(t) ==
    /\ pc[t] = "opt_export"
    /\ Finish(t, Raised("OSError"), "failed")
    /\ UNCHANGED <<fs, clock, mesh, trace, flags, jan>>

\* The trimesh calls of the repair sequence.
Steps ==
    {"fix_normals", "fix_inversion", "fix_winding", "fill_holes", "process",
     "merge_vertices", "update_faces"}

\* Every call may return (TRUE) or raise (FALSE).
AnyCallRaises == [s \in Steps |-> BOOLEAN]

\* A trimesh whose process(validate=True) may raise, every other call
\* returning: the case the fallback is written for.
ProcessRaises == [s \in Steps |-> IF s = "process" THEN BOOLEAN ELSE {TRUE}]

\* The steps of the function; oks gives for each trimesh call the outcomes it
\* may have.
Optimize(t, oks) ==
    \/ OptLoad(t)
    \/ OptNormals(t, oks)
    \/ OptInversion(t, oks)
    \/ OptWinding(t, oks)
    \/ OptFill(t, oks)
    \/ OptProcess(t, oks)
    \/ OptMerge(t, oks)
    \/ OptUpdate(t, oks)
    \/ OptExport(t)

\* What may lie at the path optimize_mesh, check_printability or scale_model
\* is given.
GivenFiles ==
    {NoFile, CorruptFile, SceneFile(<<TrimeshObj(Solid(1, <<0, 0, 0>>))>>),
     StlFile(NoMesh, 0)} \cup StlFiles

Start(op, at, given) ==
    /\ fs = [p \in Paths |-> IF p = StlPath(1) THEN given ELSE NoFile]
    /\ flags = [t \in Tasks |-> IF t = 1
                                THEN [NoFlags EXCEPT !.op = op, !.before = given, !.orig = given]
                                ELSE NoFlags]
    /\ clock = 1
    /\ pc = [t \in Tasks |-> IF t = 1 THEN at ELSE "idle"]
    /\ mesh = [t \in Tasks |-> NoObj]
    /\ trace = [t \in Tasks |-> <<>>]
    /\ result = [t \in Tasks |-> NoResult]
    /\ jan = NoJan

\* optimize_mesh called on its own, for any file at stl_path.
InitRepair == \E given \in GivenFiles : Start("optimize", "opt_load", given)

NextRepair == Optimize(1, AnyCallRaises) \/ OptExportFails(1)

SpecRepair == InitRepair /\ [][NextRepair]_vars

---------------------------------------------------------------------------
(* check_printability(stl_path = StlPath(t)) *)
\* A report that reads mesh.volume whatever the mesh.
Report_Mut(m) ==
    [is_watertight |-> IsWatertight(m),
     is_winding_consistent |-> IsWindingConsistent(m),
     volume_mm3 |-> [defined |-> TRUE, num |-> Volume(m)[1], den |-> Volume(m)[2]],
     dimensions_mm |-> Extents(m), dimensions_den |-> m.den,
     face_count |-> Len(m.faces), vertex_count |-> Len(m.verts),
     printable |-> IsWatertight(m) /\ IsWindingConsistent(m)]

\* The result dict for a loaded Trimesh.
Report(m) ==
    [is_watertight |-> IsWatertight(m),
     is_winding_consistent |-> IsWindingConsistent(m),
     volume_mm3 |-> IF IsWatertight(m)
                    THEN [defined |-> TRUE, num |-> Volume(m)[1], den |-> Volume(m)[2]]
                    ELSE [defined |-> FALSE, num |-> 0, den |-> 1],
     dimensions_mm |-> Extents(m), dimensions_den |-> m.den,
     face_count |-> Len(m.faces), vertex_count |-> Len(m.verts),
     printable |-> IsWatertight(m) /\ IsWindingConsistent(m)]

\* The whole call: a load error propagates, an object that is no Trimesh
\* gives {"error": ...}, a mesh without vertices has bounds None (TypeError).
CheckPrintability(t) ==
    /\ pc[t] = "tool"
    /\ LET f == fs[StlPath(t)]
       IN result' = [result EXCEPT ![t] =
            IF ~Loadable(f)
            THEN Raised(IF Exists(f) THEN "LoadError" ELSE "FileNotFoundError")
            ELSE IF Load(f).type # "Trimesh" THEN Result("returned", "invalid mesh file", NoReport)
            ELSE IF Load(f).m.verts = <<>> THEN Raised("TypeError")
            ELSE Result("returned", "", Report(Load(f).m))]
    /\ flags' = [flags EXCEPT ![t].op = "check", ![t].before = fs[StlPath(t)]]
    /\ UNCHANGED <<fs, clock, pc, mesh, trace, jan>>

---------------------------------------------------------------------------
(* scale_model(stl_path = StlPath(t), scale_percent) *)

ScalePercents == {25, 50, 100, 200, 400}
\* A factor that forgets the division by 100.
ScaleFactor_Mut(scale_percent) == <<scale_percent, 1>>

\* scale_factor = scale_percent / 100.0, as <<numerator, denominator>>.
ScaleFactor(scale_percent) == <<scale_percent, 100>>

Scaled(m, scale_percent) ==
    ApplyScale(m, ScaleFactor(scale_percent)[1], ScaleFactor(scale_percent)[2])

\* The whole call with its export succeeding; an object that is no Trimesh is
\* left alone and the path returned.
ScaleModel(t, scale_percent) ==
    /\ pc[t] = "tool"
    /\ Len(flags[t].pcts) < MaxScales
    /\ LET f == fs[StlPath(t)]
       IN IF ~Loadable(f)
          THEN /\ result' = [result EXCEPT ![t] =
                     Raised(IF Exists(f) THEN "LoadError" ELSE "FileNotFoundError")]
               /\ flags' = [flags EXCEPT ![t].op = "scale", ![t].before = f]
               /\ UNCHANGED <<fs, clock>>
          ELSE IF Load(f).type # "Trimesh"
          THEN /\ result' = [result EXCEPT ![t] = Returned]
               /\ flags' = [flags EXCEPT ![t].op = "scale", ![t].before = f]
               /\ UNCHANGED <<fs, clock>>
          ELSE /\ fs' = [fs EXCEPT ![StlPath(t)] =
                              StlFile(Scaled(Load(f).m, scale_percent), clock)]
               /\ clock' = clock + 1
               /\ result' = [result EXCEPT ![t] = Returned]
               /\ flags' = [flags EXCEPT ![t].op = "scale", ![t].before = f,
                                         ![t].pcts = Append(@, scale_percent)]
    /\ UNCHANGED <<pc, mesh, trace, jan>>

\* The call with its export failing to write (an OSError): it propagates.
ScaleModelExportFails(t) ==
    /\ pc[t] = "tool"
    /\ Loadable(fs[StlPath(t)])
    /\ Load(fs[StlPath(t)]).type = "Trimesh"
    /\ result' = [result EXCEPT ![t] = Raised("OSError")]
    /\ flags' = [flags EXCEPT ![t].op = "scale", ![t].before = fs[StlPath(t)]]
    /\ UNCHANGED <<fs, clock, pc, mesh, trace, jan>>

\* check_printability and scale_model called, in any order, on any file.
InitTools == \E given \in GivenFiles : Start("none", "tool", given)

NextTools ==
    \/ CheckPrintability(1)
    \/ \E scale_percent \in ScalePercents : ScaleModel(1, scale_percent)
    \/ ScaleModelExportFails(1)

SpecTools == InitTools /\ [][NextTools]_vars

---------------------------------------------------------------------------
(* cleanup_old_files(directory = the output directory, max_size) *)

\* MAX_STORAGE_SIZE = 5 * 1024 * 1024 * 1024 bytes, in MiB.
MAX_STORAGE_SIZE == 5 * 1024

\* The order in which directory.rglob("*") yields the paths.
PathSeq ==
    [i \in 1..(3 * (NumTasks + 1)) |-> <<(i - 1) \div 3, Suffixes[((i - 1) % 3) + 1]>>]

RECURSIVE Listing(_, _)
\* files.append({"path", "mtime", "size"}) for every file of the directory.
Listing(dir, i) ==
    IF i > Len(PathSeq) THEN <<>>
    ELSE (IF Exists(dir[PathSeq[i]])
          THEN <<[path |-> PathSeq[i], mtime |-> dir[PathSeq[i]].mtime,
                  size |-> dir[PathSeq[i]].size]>>
          ELSE <<>>) \o Listing(dir, i + 1)

\* A list left in directory order.
SortByMtime_Mut(s) == s

\* files.sort(key=lambda x: x["mtime"]): the oldest first, and entries of one
\* mtime in the order of the listing (the sort is stable).
SortByMtime(s) ==
    LET Before(i, j) == s[i].mtime < s[j].mtime \/ (s[i].mtime = s[j].mtime /\ i < j)
        Pos(j) == 1 + Cardinality({i \in DOMAIN s : Before(i, j)})
    IN [k \in DOMAIN s |-> s[CHOOSE j \in DOMAIN s : Pos(j) = k]]

RECURSIVE SizeSum(_)
\* sum(f["size"] for f in files)
SizeSum(s) == IF s = <<>> THEN 0 ELSE Head(s).size + SizeSum(Tail(s))

\* while current_size > max_size and files
LoopGuard(j) == j.current_size > j.max_size /\ j.files # <<>>

\* for file_path in directory.rglob("*"): the files are listed.
CleanupList ==
    /\ jan.pc = "call"
    /\ jan' = [jan EXCEPT !.pc = "sort", !.files = Listing(fs, 1),
                          !.listed = Listing(fs, 1)]
    /\ UNCHANGED <<fs, clock, pc, mesh, trace, flags, result>>

\* files.sort(key=lambda x: x["mtime"])
CleanupSort ==
    /\ jan.pc = "sort"
    /\ jan' = [jan EXCEPT !.pc = "sum", !.files = SortByMtime(jan.files),
                          !.sorted = SortByMtime(jan.files)]
    /\ UNCHANGED <<fs, clock, pc, mesh, trace, flags, result>>

\* current_size = sum(f["size"] for f in files)
CleanupSum ==
    /\ jan.pc = "sum"
    /\ jan' = [jan EXCEPT !.pc = "loop", !.current_size = SizeSum(jan.files)]
    /\ UNCHANGED <<fs, clock, pc, mesh, trace, flags, result>>

\* One turn of the loop whose unlink succeeds.
CleanupUnlink ==
    /\ jan.pc = "loop"
    /\ LoopGuard(jan)
    /\ LET oldest == Head(jan.files)
       IN /\ fs' = [fs EXCEPT ![oldest.path] = NoFile]
          /\ jan' = [jan EXCEPT !.files = Tail(@),
                                !.current_size = @ - oldest.size,
                                !.deleted_count = @ + 1,
                                !.attempted = Append(@, oldest)]
    /\ UNCHANGED <<clock, pc, mesh, trace, flags, result>>

\* One turn of the loop whose unlink raises: the except clause prints, and
\* the entry stays popped.
CleanupUnlinkFails ==
    /\ jan.pc = "loop"
    /\ LoopGuard(jan)
    /\ LET oldest == Head(jan.files)
       IN jan' = [jan EXCEPT !.files = Tail(@),
                             !.attempted = Append(@, oldest),
                             !.failed = @ \cup {oldest.path}]
    /\ UNCHANGED <<fs, clock, pc, mesh, trace, flags, result>>

\* The loop ends and the function returns.
CleanupReturn ==
    /\ jan.pc = "loop"
    /\ ~LoopGuard(jan)
    /\ jan' = [jan EXCEPT !.pc = "returned"]
    /\ UNCHANGED <<fs, clock, pc, mesh, trace, flags, result>>

Cleanup == CleanupList \/ CleanupSort \/ CleanupSum \/ CleanupUnlink \/ CleanupUnlinkFails \/ CleanupReturn

\* The sizes, in MiB, of the files a directory may hold.
JanitorSizes == {2 * 1024, 4 * 1024}

\* cleanup_old_files on its own, in a directory that earlier requests have
\* filled: nothing is written while the call runs.
InitJanitor ==
    /\ fs = [p \in Paths |-> NoFile]
    /\ jan = NoJan
    /\ clock = 1
    /\ pc = [t \in Tasks |-> "idle"]
    /\ mesh = [t \in Tasks |-> NoObj]
    /\ trace = [t \in Tasks |-> <<>>]
    /\ flags = [t \in Tasks |-> NoFlags]
    /\ result = [t \in Tasks |-> NoResult]

\* An earlier request writes a file of the directory: up to MaxFiles files,
\* two of which may have one modification time.
JanitorWrite ==
    /\ jan.pc = "idle"
    /\ Len(Listing(fs, 1)) < MaxFiles
    /\ \E i \in 1..MaxFiles, size \in JanitorSizes, tick \in {0, 1} :
          /\ ~Exists(fs[PathSeq[i]])
          /\ fs' = [fs EXCEPT ![PathSeq[i]] = File("png", 1, <<>>, clock + tick, size)]
          /\ clock' = clock + tick
    /\ UNCHANGED <<pc, mesh, trace, flags, result, jan>>

\* cleanup_old_files(directory, max_size) is called, with a limit of nothing
\* or of MAX_STORAGE_SIZE.
JanitorCall ==
    /\ jan.pc = "idle"
    /\ \E max_size \in {0, MAX_STORAGE_SIZE} :
          jan' = [jan EXCEPT !.pc = "call", !.max_size = max_size]
    /\ UNCHANGED <<fs, clock, pc, mesh, trace, flags, result>>

NextJanitor == JanitorWrite \/ JanitorCall \/ Cleanup

SpecJanitor == InitJanitor /\ [][NextJanitor]_vars

\* The call runs in one thread of control that is not suspended for ever.
FairSpecJanitor == SpecJanitor /\ WF_vars(Cleanup)

---------------------------------------------------------------------------
(* generate_3d: the handler of POST /api/generate, one request per task.   *)
(* Handlers run on one event loop: from one await to the next a handler is *)
(* not interleaved with another handler (jan.pc = "idle" says that no      *)
(* handler is between its cleanup and its first await), while the worker   *)
(* threads of asyncio.to_thread run beside it.  Here every write succeeds  *)
(* and, of the trimesh calls, only process may raise: the other failures   *)
(* are the matter of SpecConvert and SpecRepair.                           *)

\* The sizes, in MiB, of the images saved.
ImageSizes == {1024}

\* The handler starts: cleanup_old_files(OUTPUT_DIR, MAX_STORAGE_SIZE).
Request(t) ==
    /\ pc[t] = "idle"
    /\ jan.pc = "idle"
    /\ pc' = [pc EXCEPT ![t] = "cleanup"]
    /\ flags' = [flags EXCEPT ![t].op = "generate"]
    /\ jan' = [NoJan EXCEPT !.pc = "call", !.caller = t, !.max_size = MAX_STORAGE_SIZE]
    /\ UNCHANGED <<fs, clock, mesh, trace, result>>

\* The image is decoded and saved as <task_id>_input.png, and the handler
\* awaits the generator's thread.
SaveInput(t) ==
    /\ pc[t] = "cleanup"
    /\ jan.pc = "returned" /\ jan.caller = t
    /\ \E size \in ImageSizes :
          fs' = [fs EXCEPT ![ImagePath(t)] = File("png", 1, <<>>, clock, size)]
    /\ clock' = clock + 1
    /\ pc' = [pc EXCEPT ![t] = "ai_call"]
    /\ jan' = NoJan
    /\ UNCHANGED <<mesh, trace, flags, result>>

\* The request's image does not decode: the except branch answers 500.
RejectInput(t) ==
    /\ pc[t] = "cleanup"
    /\ jan.pc = "returned" /\ jan.caller = t
    /\ pc' = [pc EXCEPT ![t] = "failed"]
    /\ result' = [result EXCEPT ![t] = Raised("DecodeError")]
    /\ jan' = NoJan
    /\ UNCHANGED <<fs, clock, mesh, trace, flags>>

\* _call_triposr returns a model file (the generator's or the fallback's).
AiCall(t) ==
    /\ pc[t] = "ai_call"
    /\ pc' = [pc EXCEPT ![t] = "ai_copy"]
    /\ UNCHANGED <<fs, clock, mesh, trace, flags, result, jan>>

\* _call_triposr raises: the generator and the fallback both failed.
AiCallFails(t) ==
    /\ pc[t] = "ai_call"
    /\ pc' = [pc EXCEPT ![t] = "failed"]
    /\ result' = [result EXCEPT ![t] = Raised("GeneratorError")]
    /\ UNCHANGED <<fs, clock, mesh, trace, flags, jan>>

\* What the generator returns: a scene file.
Generated == {SceneFile(<<TrimeshObj(Opened(1, <<0, 0, 0>>))>>)}

\* The result is copied to <task_id>_model.glb, and the handler awaits the
\* thread of convert_to_stl.
AiCopy(t) ==
    /\ pc[t] = "ai_copy"
    /\ jan.pc = "idle"
    /\ \E model \in Generated, size \in FileSizes :
          fs' = [fs EXCEPT ![ModelPath(t)] = [model EXCEPT !.mtime = clock, !.size = size]]
    /\ clock' = clock + 1
    /\ pc' = [pc EXCEPT ![t] = "cv_load"]
    /\ UNCHANGED <<mesh, trace, flags, result, jan>>

\* return GenerateResponse(...)
Respond(t) ==
    /\ pc[t] = "respond"
    /\ jan.pc = "idle"
    /\ pc' = [pc EXCEPT ![t] = "done"]
    /\ UNCHANGED <<fs, clock, mesh, trace, flags, result, jan>>

Generate(t) ==
    \/ Request(t)
    \/ SaveInput(t)
    \/ RejectInput(t)
    \/ AiCall(t)
    \/ AiCallFails(t)
    \/ AiCopy(t)
    \/ Convert(t)
    \/ Optimize(t, ProcessRaises)
    \/ Respond(t)

\* The service as it starts: an empty output directory, and NumTasks
\* requests to come.
Init ==
    /\ fs = [p \in Paths |-> NoFile]
    /\ clock = 1
    /\ pc = [t \in Tasks |-> "idle"]
    /\ mesh = [t \in Tasks |-> NoObj]
    /\ trace = [t \in Tasks |-> <<>>]
    /\ flags = [t \in Tasks |-> NoFlags]
    /\ result = [t \in Tasks |-> NoResult]
    /\ jan = NoJan

Next == Cleanup \/ \E t \in Tasks : Generate(t)

Spec == Init /\ [][Next]_vars

---------------------------------------------------------------------------
(* The claims *)

LoadsAsTrimesh(f) == f.kind \in {"stl", "mesh"}

HasVertex(f) == f.data # <<>>

AfterRepair(t) == pc[t] \in {"opt_export", "done"} /\ mesh[t].type = "Trimesh"

Rank(step) ==
    CASE step = "fix_normals"    -> 1
      [] step = "fix_inversion"  -> 2
      [] step = "fix_winding"    -> 3
      [] step = "fill_holes"     -> 4
      [] step = "process"        -> 5
      [] step = "merge_vertices" -> 6
      [] step = "update_faces"   -> 7

\* C2 as stated: a sub-step that fails is skipped alone: every later sub-step
\* is still attempted (hole filling where the mesh is not watertight), so
\* that a failure of the normal correction does not keep the inversion and
\* the winding correction from running.
C2_FailedStepSkippedAlone ==
    \A t \in Tasks :
        flags[t].op = "optimize" /\ AfterRepair(t) =>
            \A failed \in flags[t].failed :
                \A later \in {"fix_inversion", "fix_winding", "process"} :
                    Rank(failed) < Rank(later) => later \in Range(trace[t])

\* C5: the sub-steps are attempted in the order normal, inversion, winding,
\* hole filling, cleanup; fill_holes is called exactly when the mesh is not
\* watertight at that point; the cleanup is attempted in every run.
C5_RepairOrder ==
    \A t \in Tasks :
        flags[t].op = "optimize" =>
            /\ \A i, j \in DOMAIN trace[t] : i < j => Rank(trace[t][i]) < Rank(trace[t][j])
            /\ pc[t] \in {"opt_load", "opt_normals", "opt_inversion", "opt_winding", "opt_fill"} =>
                  "fill_holes" \notin Range(trace[t])
            /\ pc[t] \in {"opt_process", "opt_merge", "opt_update"} \/ AfterRepair(t) =>
                  ("fill_holes" \in Range(trace[t]) <=> ~flags[t].watertight_at_fill)
            /\ AfterRepair(t) => "process" \in Range(trace[t])

\* C5's case: a mesh found watertight after the corrections goes on to the
\* cleanup without a call of fill_holes.
C5_Witness ==
    /\ pc[1] = "done"
    /\ flags[1].op = "optimize"
    /\ flags[1].watertight_at_fill
    /\ trace[1] = <<"fix_normals", "fix_inversion", "fix_winding", "process">>

\* The input of convert_to_stl does not load, or is a Scene with no Trimesh.
BadInput(f) ==
    \/ f.kind \notin {"stl", "mesh", "scene"}
    \/ f.kind = "scene" /\ \A i \in DOMAIN f.data : f.data[i].type # "Trimesh"

\* C3: when the input does not load or its Scene holds no Trimesh,
\* _convert_to_stl_sync raises the loader's error before it holds a mesh, and
\* the file at <task_id>_model.stl is neither created nor changed.
C3_LoaderFailurePropagates ==
    \A t \in Tasks :
        flags[t].op = "convert" /\ BadInput(fs[ModelPath(t)]) =>
            /\ mesh[t] = NoObj
            /\ ~flags[t].exported
            /\ fs[StlPath(t)] = flags[t].before
            /\ pc[t] \in {"cv_load", "done"}
            /\ pc[t] = "done" =>
                  /\ result[t].status = "raised"
                  /\ result[t].error =
                        (IF fs[ModelPath(t)].kind = "scene" THEN "ValueError"
                         ELSE IF fs[ModelPath(t)].kind = "none" THEN "FileNotFoundError"
                         ELSE "LoadError")

\* C3's case: a Scene of point clouds only has been refused, and the STL file
\* of an earlier run is still there.
C3_Witness ==
    /\ pc[1] = "done"
    /\ fs[ModelPath(1)] = SceneFile(<<OtherGeom, OtherGeom>>)
    /\ result[1] = Raised("ValueError")
    /\ Exists(fs[StlPath(1)])

\* The input of convert_to_stl as one mesh with an extent.
NonDegenerate(f) ==
    ~BadInput(f) /\ Flattened(f).verts # <<>> /\ SeqMax(Extents(Flattened(f))) > 0

\* m's extents are those of the input f scaled, on every axis alike, so that
\* the largest is 50.
ScaledTo50(m, f) ==
    /\ SeqMax(Extents(m)) = 50 * m.den
    /\ \A k \in 1..3 :
          Extents(m)[k] * SeqMax(Extents(Flattened(f))) = 50 * Extents(Flattened(f))[k] * m.den

\* C7: for an input with an extent, the mesh after the scaling, the mesh
\* after the centering and the mesh of the exported file each have a largest
\* extent of 50 and the input's proportions: the scale is uniform and the
\* translation changes no extent.
C7_ScaleInvariant ==
    \A t \in Tasks :
        flags[t].op = "convert" /\ NonDegenerate(fs[ModelPath(t)]) =>
            /\ pc[t] \in {"cv_center", "cv_export"} => ScaledTo50(mesh[t].m, fs[ModelPath(t)])
            /\ pc[t] = "done" /\ result[t].status = "returned" =>
                  ScaledTo50(Load(fs[StlPath(t)]).m, fs[ModelPath(t)])

\* C7's case: a scene of two meshes has been exported with coordinates that
\* are no whole numbers.
C7_Witness ==
    /\ pc[1] = "done"
    /\ result[1].status = "returned"
    /\ fs[ModelPath(1)].kind = "scene"
    /\ Len(fs[ModelPath(1)].data) = 3
    /\ NonDegenerate(fs[ModelPath(1)])
    /\ fs[StlPath(1)].den > 1

\* The input of convert_to_stl as one mesh without extent.
Degenerate(f) ==
    ~BadInput(f) /\ Flattened(f).verts # <<>> /\ SeqMax(Extents(Flattened(f))) = 0

\* C8: the mesh is scaled exactly when its largest extent is positive; a mesh
\* without extent goes unscaled to the centering, and is exported with every
\* vertex at the origin; every run that returns has centered and exported.
C8_DegenerateInput ==
    \A t \in Tasks :
        flags[t].op = "convert" /\ ~BadInput(fs[ModelPath(t)])
            /\ Flattened(fs[ModelPath(t)]).verts # <<>> =>
            /\ pc[t] \in {"cv_center", "cv_export", "done"} =>
                  (flags[t].scaled <=> SeqMax(Extents(Flattened(fs[ModelPath(t)]))) > 0)
            /\ Degenerate(fs[ModelPath(t)]) /\ pc[t] = "cv_center" =>
                  mesh[t].m = Flattened(fs[ModelPath(t)])
            /\ pc[t] = "done" /\ result[t].status = "returned" =>
                  /\ flags[t].centered
                  /\ flags[t].exported
                  /\ fs[StlPath(t)].kind = "stl"
                  /\ fs[StlPath(t)].mtime > 0
            /\ Degenerate(fs[ModelPath(t)]) /\ pc[t] = "done" /\ result[t].status = "returned" =>
                  /\ fs[StlPath(t)].den = 1
                  /\ \A i \in DOMAIN fs[StlPath(t)].data :
                        \A k \in 1..3 : fs[StlPath(t)].data[i][k] = <<0, 0, 0>>

\* C8's case: a point mesh away from the origin has been centered and
\* exported without scaling.
C8_Witness ==
    /\ pc[1] = "done"
    /\ result[1].status = "returned"
    /\ fs[ModelPath(1)] = MeshFile(Point(<<1, -2, 0>>))
    /\ ~flags[1].scaled
    /\ flags[1].centered
    /\ flags[1].exported

RECURSIVE Ratio(_)
\* The product of the factors percent / 100 in lowest terms.
Ratio(pcts) ==
    IF pcts = <<>> THEN <<1, 1>>
    ELSE LET r == Ratio(Tail(pcts))
             n == Head(pcts) * r[1]
             d == 100 * r[2]
         IN <<n \div GCD(n, d), d \div GCD(n, d)>>

\* C9: the extents of the file are those of the original times the product
\* of the factors applied: they are the original's when the percentages
\* multiply to 100% (200 then 50, or 100 alone), and no percentage is refused.
C9_ScaleRoundTrip ==
    \A t \in Tasks :
        pc[t] = "tool" /\ LoadsAsTrimesh(flags[t].orig) /\ HasVertex(flags[t].orig) =>
            LET m0 == Load(flags[t].orig).m
                m1 == Load(fs[StlPath(t)]).m
                r  == Ratio(flags[t].pcts)
            IN /\ \A k \in 1..3 :
                     Extents(m1)[k] * m0.den * r[2] = Extents(m0)[k] * m1.den * r[1]
               /\ r = <<1, 1>> =>
                     \A k \in 1..3 : Extents(m1)[k] * m0.den = Extents(m0)[k] * m1.den
               /\ flags[t].op = "scale" =>
                     result[t].status = "returned" \/ result[t].error = "OSError"

\* C9's case: 200% and then 50% have been applied to a mesh with an extent.
C9_Witness ==
    /\ flags[1].op = "scale"
    /\ flags[1].pcts = <<200, 50>>
    /\ result[1].status = "returned"
    /\ LoadsAsTrimesh(flags[1].orig)
    /\ HasVertex(flags[1].orig)
    /\ SeqMax(Extents(Load(flags[1].orig).m)) > 0

\* The sizes of the first n entries of s whose path is not in `failed`.
RECURSIVE Freed(_, _, _)
Freed(s, n, failed) ==
    IF n = 0 THEN 0
    ELSE Freed(s, n - 1, failed) + (IF s[n].path \in failed THEN 0 ELSE s[n].size)

\* What holds of a call of cleanup_old_files once it has listed the files.
C10_Eviction ==
    jan.pc \in {"loop", "returned"} =>
        LET n      == Len(jan.attempted)
            total0 == SizeSum(jan.listed)
        IN \* the list holds the files of the directory, the oldest first
           /\ Len(jan.sorted) = Len(jan.listed)
           /\ Range(jan.sorted) = Range(jan.listed)
           /\ \A i, j \in DOMAIN jan.sorted :
                 i < j => jan.sorted[i].mtime <= jan.sorted[j].mtime
           \* what it tried to delete is a prefix of that list
           /\ jan.attempted = SubSeq(jan.sorted, 1, n)
           /\ jan.files = SubSeq(jan.sorted, n + 1, Len(jan.sorted))
           \* nothing is tried at or below the limit, and each try found the
           \* running total above it
           /\ total0 <= jan.max_size => n = 0
           /\ \A k \in 1..n : total0 - Freed(jan.sorted, k - 1, jan.failed) > jan.max_size
           \* a failed unlink frees nothing, a successful one the file's size
           /\ jan.current_size = total0 - Freed(jan.sorted, n, jan.failed)
           /\ \A i \in DOMAIN jan.sorted :
                 Exists(fs[jan.sorted[i].path]) <=> (i > n \/ jan.sorted[i].path \in jan.failed)
           \* on return without a failed unlink the directory is within the limit
           /\ jan.pc = "returned" /\ jan.failed = {} =>
                 /\ SizeSum(Listing(fs, 1)) <= jan.max_size
                 /\ SizeSum(Listing(fs, 1)) = jan.current_size

\* C10: cleanup_old_files deletes in ascending order of modification time a
\* prefix of the sorted list, nothing at or below max_size, stops as soon as
\* its running total is at or below max_size, does not subtract the size of a
\* file whose unlink failed, leaves at most max_size when no unlink failed,
\* and always returns.
C10_JanitorEviction == []C10_Eviction /\ ((jan.pc = "call") ~> (jan.pc = "returned"))

\* C10's case: the call has returned with files deleted, one unlink failed
\* and files left.
C10_Witness ==
    /\ jan.pc = "returned"
    /\ jan.deleted_count > 0
    /\ jan.failed # {}
    /\ jan.files # <<>>
    /\ \E i \in DOMAIN jan.listed : jan.listed[i] # jan.sorted[i]

\* C4 as stated: no stage of a task fails because a file the task wrote has
\* been deleted by the cleanup of another request.
C4_CleanupNeverFailsATask ==
    \A t \in Tasks : ~(pc[t] = "failed" /\ result[t].error = "FileNotFoundError")

=============================================================================
